---- MODULE Spec2Model ----
(***************************************************************************)
(* Feature codec of the BlueST SDK as used by the Proteus NEAI demo:       *)
(* FeatureAccelerometer and FeatureHumidity decoding a characteristic      *)
(* payload, the Feature update/notify protocol around them, and the        *)
(* per-channel accessors applied to the decoded samples.                   *)
(*                                                                         *)
(* Python values are modelled as tagged records.  A number is an exact     *)
(* rational num/den with the Python type as its tag, so that int16 / 10.0  *)
(* is the float raw/10 and float(x) changes the type but not the value.    *)
(***************************************************************************)
EXTENDS Integers, Sequences, FiniteSets, TLC

(***************************************************************************)
(* Bounds of the model.                                                    *)
(***************************************************************************)
\* Longest payload buffer handed to the decoder, in bytes.
MaxLen == 8
\* Largest offset at which the caller starts decoding.
MaxOffset == 2
\* Largest number of feature encodings decoded in sequence from one payload.
MaxFeatures == 2

(***************************************************************************)
(* Python values.                                                          *)
(***************************************************************************)
None == [tag |-> "None"]
PyInt(n) == [tag |-> "int", num |-> n, den |-> 1]
PyFloat(n, d) == [tag |-> "float", num |-> n, den |-> d]
NaN == [tag |-> "nan", num |-> 0, den |-> 0]
PyList(items) == [tag |-> "list", items |-> items]
NoList == [tag |-> "None", items |-> << >>]

\* float(x): the same value as a float.
float(x) == [tag |-> "float", num |-> x.num, den |-> x.den]
\* x / y for a number x and a positive scale y: true division, a float.
TrueDiv(x, y) == [tag |-> "float", num |-> x.num, den |-> x.den * y]
\* Python's == on two numbers (NaN equals nothing).
NumEq(a, b) == a.tag # "nan" /\ b.tag # "nan" /\ a.num * b.den = b.num * a.den
\* Truth value of a number: zero is false, everything else (NaN too) true.
TruthyNum(x) == x.tag = "nan" \/ x.num # 0
\* Truth value of a list or None: None and the empty list are false.
TruthyList(l) == l.tag = "list" /\ Len(l.items) > 0
\* Truth value of a Sample or None: Sample defines neither __bool__ nor
\* __len__, so every Sample object is true.
TruthyObj(o) == o.tag # "None"

\* The outcome of a call: a returned value or a raised exception.
Return(v) == [raised |-> "", value |-> v]
Raise(e) == [raised |-> e, value |-> None]

(***************************************************************************)
(* blue_st_sdk.utils.number_conversion.LittleEndian                        *)
(***************************************************************************)
\* bytes_to_int16(data, start): the two bytes at start, least significant
\* first, as a signed 16-bit integer; out of range when they are not there.
LittleEndian_bytes_to_int16(data, start) ==
    IF start + 2 > Len(data)
    THEN [raised |-> "OutOfRange", value |-> 0, at |-> start]
    ELSE LET u == data[start + 1] + 256 * data[start + 2]
         IN [raised |-> "", value |-> IF u >= 32768 THEN u - 65536 ELSE u,
             at |-> start]

(***************************************************************************)
(* blue_st_sdk.feature: Field, Sample, ExtractedData                       *)
(***************************************************************************)
Field(name, unit, type, maximum, minimum) ==
    [name |-> name, unit |-> unit, type |-> type,
     maximum |-> maximum, minimum |-> minimum]

\* Sample(data, description, timestamp): rejects a value list that is not
\* parallel to the field list.
Sample(values, description, timestamp) ==
    IF Len(values) # Len(description)
    THEN Raise("ValueError")
    ELSE Return([tag |-> "Sample", data |-> PyList(values),
                 description |-> description, timestamp |-> timestamp])

ExtractedData(sample, bytes_read) == [sample |-> sample, bytes_read |-> bytes_read]

\* What _extract_data hands back: the ExtractedData or the exception, and the
\* offsets of the LittleEndian conversions it called on the way.
Extracted(e, conv) == [raised |-> "", extracted |-> e, conv |-> conv]
Failed(exc, conv) == [raised |-> exc, extracted |-> None, conv |-> conv]

(***************************************************************************)
(* blue_st_sdk.features.feature_accelerometer.FeatureAccelerometer         *)
(***************************************************************************)
FeatureAccelerometer_FEATURE_NAME == "Accelerometer"
FeatureAccelerometer_FEATURE_UNIT == "mg"
FeatureAccelerometer_FEATURE_DATA_NAME == <<"X", "Y", "Z">>
FeatureAccelerometer_FEATURE_DATA_MAX == 2000
FeatureAccelerometer_FEATURE_DATA_MIN == -2000
FeatureAccelerometer_DATA_LENGTH_BYTES == 6
X_INDEX == 0
Y_INDEX == 1
Z_INDEX == 2
FEATURE_X_FIELD ==
    Field(FeatureAccelerometer_FEATURE_DATA_NAME[X_INDEX + 1],
          FeatureAccelerometer_FEATURE_UNIT, "Int16",
          FeatureAccelerometer_FEATURE_DATA_MAX,
          FeatureAccelerometer_FEATURE_DATA_MIN)
FEATURE_Y_FIELD ==
    Field(FeatureAccelerometer_FEATURE_DATA_NAME[Y_INDEX + 1],
          FeatureAccelerometer_FEATURE_UNIT, "Int16",
          FeatureAccelerometer_FEATURE_DATA_MAX,
          FeatureAccelerometer_FEATURE_DATA_MIN)
FEATURE_Z_FIELD ==
    Field(FeatureAccelerometer_FEATURE_DATA_NAME[Z_INDEX + 1],
          FeatureAccelerometer_FEATURE_UNIT, "Int16",
          FeatureAccelerometer_FEATURE_DATA_MAX,
          FeatureAccelerometer_FEATURE_DATA_MIN)

\* The Z field left out of the field list.
Mutant_init_without_z ==
    [name |-> FeatureAccelerometer_FEATURE_NAME,
     description |-> <<FEATURE_X_FIELD, FEATURE_Y_FIELD>>]

\* __init__: the name and the field list handed to Feature.__init__.
FeatureAccelerometer_init ==
    [name |-> FeatureAccelerometer_FEATURE_NAME,
     description |-> <<FEATURE_X_FIELD, FEATURE_Y_FIELD, FEATURE_Z_FIELD>>]

(***************************************************************************)
(* blue_st_sdk.features.feature_humidity.FeatureHumidity                   *)
(***************************************************************************)
FeatureHumidity_FEATURE_NAME == "Humidity"
FeatureHumidity_FEATURE_UNIT == "%"
FeatureHumidity_FEATURE_DATA_NAME == "Humidity"
FeatureHumidity_FEATURE_DATA_MAX == 100
FeatureHumidity_FEATURE_DATA_MIN == 0
FeatureHumidity_DATA_LENGTH_BYTES == 2
SCALE_FACTOR == 10
FEATURE_FIELDS ==
    Field(FeatureHumidity_FEATURE_DATA_NAME, FeatureHumidity_FEATURE_UNIT,
          "Float", FeatureHumidity_FEATURE_DATA_MAX,
          FeatureHumidity_FEATURE_DATA_MIN)

\* __init__: the name and the field list handed to Feature.__init__.
FeatureHumidity_init ==
    [name |-> FeatureHumidity_FEATURE_NAME,
     description |-> <<FEATURE_FIELDS>>]

(***************************************************************************)
(* The two features of the device.                                         *)
(***************************************************************************)
Features == {FeatureAccelerometer_FEATURE_NAME, FeatureHumidity_FEATURE_NAME}

\* Feature.get_fields_description(): the field list fixed at construction.
get_fields_description(feature) ==
    IF feature = FeatureAccelerometer_FEATURE_NAME
    THEN FeatureAccelerometer_init.description
    ELSE FeatureHumidity_init.description

\* The class constant DATA_LENGTH_BYTES of a feature.
DATA_LENGTH_BYTES(feature) ==
    IF feature = FeatureAccelerometer_FEATURE_NAME
    THEN FeatureAccelerometer_DATA_LENGTH_BYTES
    ELSE FeatureHumidity_DATA_LENGTH_BYTES

\* The conversions made before the first one that raises (all of them when
\* none does), and the exception that stopped them ("" when none did).
RECURSIVE Called(_)
Called(reads) ==
    IF reads = << >> THEN << >>
    ELSE IF Head(reads).raised # "" THEN <<Head(reads)>>
    ELSE <<Head(reads)>> \o Called(Tail(reads))

Offsets(reads) == [i \in 1..Len(reads) |-> reads[i].at]
Stopped(reads) == LET c == Called(reads) IN IF c = << >> THEN "" ELSE c[Len(c)].raised

\* _extract_data after its length check: the conversions are evaluated in
\* order, an exception of one of them ends the call, otherwise the Sample is
\* built from the values and returned with the bytes read.
Decode(reads, values, description, timestamp, bytes_read) ==
    IF Stopped(reads) # ""
    THEN Failed(Stopped(reads), Offsets(Called(reads)))
    ELSE LET sample == Sample(values, description, timestamp)
         IN IF sample.raised # ""
            THEN Failed(sample.raised, Offsets(reads))
            ELSE Extracted(ExtractedData(sample.value, bytes_read), Offsets(reads))

\* The length check off by one: a payload of exactly DATA_LENGTH_BYTES bytes
\* is refused.
Mutant_not_enough_data_off_by_one(data, offset) ==
    Len(data) - offset <= FeatureAccelerometer_DATA_LENGTH_BYTES

\* if len(data) - offset < self.DATA_LENGTH_BYTES
FeatureAccelerometer_not_enough_data(data, offset) ==
    Len(data) - offset < FeatureAccelerometer_DATA_LENGTH_BYTES

\* The Z axis read where the Y axis is.
Mutant_reads_z_at_y(data, offset) ==
    <<LittleEndian_bytes_to_int16(data, offset),
      LittleEndian_bytes_to_int16(data, offset + 2),
      LittleEndian_bytes_to_int16(data, offset + 2)>>

\* The three LittleEndian.bytes_to_int16 calls, in order.
FeatureAccelerometer_reads(data, offset) ==
    <<LittleEndian_bytes_to_int16(data, offset),
      LittleEndian_bytes_to_int16(data, offset + 2),
      LittleEndian_bytes_to_int16(data, offset + 4)>>

\* The value list handed to Sample.
FeatureAccelerometer_values(reads) ==
    <<PyInt(reads[1].value), PyInt(reads[2].value), PyInt(reads[3].value)>>

\* The bytes read reported as everything that was left in the buffer.
Mutant_extract_data_reads_to_end(timestamp, data, offset) ==
    IF FeatureAccelerometer_not_enough_data(data, offset)
    THEN Failed("BlueSTInvalidDataException", << >>)
    ELSE LET reads == FeatureAccelerometer_reads(data, offset)
         IN Decode(reads, FeatureAccelerometer_values(reads),
                   get_fields_description(FeatureAccelerometer_FEATURE_NAME),
                   timestamp, Len(data) - offset)

\* FeatureAccelerometer._extract_data(timestamp, data, offset)
FeatureAccelerometer_extract_data(timestamp, data, offset) ==
    IF FeatureAccelerometer_not_enough_data(data, offset)
    THEN Failed("BlueSTInvalidDataException", << >>)
    ELSE LET reads == FeatureAccelerometer_reads(data, offset)
         IN Decode(reads, FeatureAccelerometer_values(reads),
                   get_fields_description(FeatureAccelerometer_FEATURE_NAME),
                   timestamp, FeatureAccelerometer_DATA_LENGTH_BYTES)

\* The length check made on the whole buffer, the offset forgotten.
Mutant_not_enough_data_ignores_offset(data, offset) ==
    Len(data) < FeatureHumidity_DATA_LENGTH_BYTES

\* if len(data) - offset < self.DATA_LENGTH_BYTES
FeatureHumidity_not_enough_data(data, offset) ==
    Len(data) - offset < FeatureHumidity_DATA_LENGTH_BYTES

\* The value read at the start of the buffer instead of at the offset.
Mutant_reads_from_start(data, offset) ==
    <<LittleEndian_bytes_to_int16(data, 0)>>

\* The LittleEndian.bytes_to_int16 call.
FeatureHumidity_reads(data, offset) ==
    <<LittleEndian_bytes_to_int16(data, offset)>>

\* The raw integer stored without the division by SCALE_FACTOR.
Mutant_values_unscaled(reads) ==
    <<PyInt(reads[1].value)>>

\* The value list handed to Sample.
FeatureHumidity_values(reads) ==
    <<TrueDiv(PyInt(reads[1].value), SCALE_FACTOR)>>

\* FeatureHumidity._extract_data(timestamp, data, offset)
FeatureHumidity_extract_data(timestamp, data, offset) ==
    IF FeatureHumidity_not_enough_data(data, offset)
    THEN Failed("BlueSTInvalidDataException", << >>)
    ELSE LET reads == FeatureHumidity_reads(data, offset)
         IN Decode(reads, FeatureHumidity_values(reads),
                   get_fields_description(FeatureHumidity_FEATURE_NAME),
                   timestamp, FeatureHumidity_DATA_LENGTH_BYTES)

\* self._extract_data(...): the strategy of the feature's class.
extract_data(feature, timestamp, data, offset) ==
    IF feature = FeatureAccelerometer_FEATURE_NAME
    THEN FeatureAccelerometer_extract_data(timestamp, data, offset)
    ELSE FeatureHumidity_extract_data(timestamp, data, offset)

(***************************************************************************)
(* Per-channel accessors.                                                  *)
(***************************************************************************)
\* if sample: if sample._data: if sample._data[i]: return float(sample._data[i])
\* return float('nan')
\* Indexing a list past its end raises IndexError.
ValueAtOrNaN(sample, index) ==
    IF TruthyObj(sample)
    THEN IF TruthyList(sample.data)
         THEN IF index >= Len(sample.data.items)
              THEN Raise("IndexError")
              ELSE IF TruthyNum(sample.data.items[index + 1])
                   THEN Return(float(sample.data.items[index + 1]))
                   ELSE Return(NaN)
         ELSE Return(NaN)
    ELSE Return(NaN)

\* The accessor without its "if sample._data:" guard: None is subscripted, or
\* an empty list indexed.
Mutant_get_humidity_unguarded(sample) ==
    IF TruthyObj(sample)
    THEN IF sample.data.tag = "None" THEN Raise("TypeError")
         ELSE IF Len(sample.data.items) = 0 THEN Raise("IndexError")
         ELSE IF TruthyNum(sample.data.items[1])
              THEN Return(float(sample.data.items[1]))
              ELSE Return(NaN)
    ELSE Return(NaN)

get_accelerometer_x(sample) == ValueAtOrNaN(sample, X_INDEX)
get_accelerometer_y(sample) == ValueAtOrNaN(sample, Y_INDEX)
get_accelerometer_z(sample) == ValueAtOrNaN(sample, Z_INDEX)
get_humidity(sample) == ValueAtOrNaN(sample, 0)

Accessors == {"get_accelerometer_x", "get_accelerometer_y",
              "get_accelerometer_z", "get_humidity"}

CallAccessor(accessor, sample) ==
    CASE accessor = "get_accelerometer_x" -> get_accelerometer_x(sample)
      [] accessor = "get_accelerometer_y" -> get_accelerometer_y(sample)
      [] accessor = "get_accelerometer_z" -> get_accelerometer_z(sample)
      [] accessor = "get_humidity" -> get_humidity(sample)

\* The fixed index an accessor reads.
AccessorIndex(accessor) ==
    CASE accessor = "get_accelerometer_x" -> X_INDEX
      [] accessor = "get_accelerometer_y" -> Y_INDEX
      [] accessor = "get_accelerometer_z" -> Z_INDEX
      [] accessor = "get_humidity" -> 0

(***************************************************************************)
(* Inputs: the payload buffers and the order in which the connection       *)
(* layer decodes features from them.                                       *)
(***************************************************************************)
\* A stream of device bytes: the accelerometer encoding of (16, 32, -16), the
\* humidity encodings of 50.0, 0.0, 1.6, the extremes of a signed 16-bit
\* integer, and a negative humidity.
Tape == <<16, 0, 32, 0, 240, 255, 244, 1, 0, 0, 16, 0,
          0, 128, 255, 127, 12, 254>>

\* Every window of the stream of at most MaxLen bytes is a payload.
Buffers ==
    {SubSeq(Tape, w[1], w[1] + w[2] - 1) :
        w \in {v \in (1..Len(Tape)) \X (0..MaxLen) : v[1] + v[2] - 1 <= Len(Tape)}}

Layouts == UNION {[1..n -> Features] : n \in 1..MaxFeatures}

Listeners == {"l1"}

\* The arguments display code hands to an accessor: the latest sample of
\* either feature (None before the first decode), None, a sample without a
\* value list and a sample with an empty one.
ArgNames == {"accelerometer", "humidity", "none", "nodata", "empty"}

VARIABLES
    data,         \* the payload buffer
    layout,       \* the features encoded in it, in order
    start,        \* the offset the caller starts at
    cursor,       \* the offset of the next feature
    idx,          \* the position in layout of the next feature
    pc,           \* "decoding", "done" or "failed"
    last_sample,  \* Feature._last_sample of each feature
    listeners,    \* Feature._listeners of each feature
    notified,     \* the on_update calls made, in order
    call,         \* the latest update call, its arguments and its outcome
    decoded,      \* the samples decoded from this payload, in order
    shown         \* the latest accessor call and its results

codec_vars == <<data, layout, start, cursor, idx, pc, last_sample, listeners,
                notified, call, decoded, shown>>

VARIABLES
    reading,      \* the latest read_accelerometer / read_humidity call
    parsed        \* the latest BLEAdvertisingDataParser.parse call

sdk_vars == <<reading, parsed>>

NoReading == [n |-> 0, feature |-> "", readable |-> FALSE, payload |-> << >>,
              before |-> None, result |-> Return(None)]
NoParse == [called |-> FALSE, advertising_data |-> << >>, result |-> Return(None)]

\* No read and no parse call has been made.
SdkIdle == reading = NoReading /\ parsed = NoParse

VARIABLES
    adds,         \* per listener, the add_listener calls since it was last removed
    dispatch      \* the latest notification delivered to the feature

listener_vars == <<adds, dispatch>>

\* The listeners an application registers and removes.
ListenerPool == {"l1", "l2", "l3"}

NoDispatch == [n |-> 0, raised |-> "", registered_at |-> << >>, twice |-> {},
               notified_before |-> 0, stored |-> None]

\* No listener call and no notification has been made.
ListenerIdle == adds = [l \in ListenerPool |-> 0] /\ dispatch = NoDispatch

VARIABLES
    file,           \* the content of downstream_commands.json
    dict,           \* the command last loaded from it
    last_command,   \* main: last_command
    current_state,  \* main: current_state
    command,        \* the global command
    event,          \* neai_ad_response_event
    enabled,        \* notifications of feature_neai_ad are enabled
    mpc,            \* where main is: "outer", "inner" or "wait"
    upstream,       \* the message in upstream_message.json
    writes,         \* the number of times the downstream file was rewritten
    acted,          \* device operations sent from reads of the present content
    last_sent,      \* the latest device operation and current_state when sent
    answered,       \* a matching notification arrived since the command was sent
    returned        \* the latest return of the wait, and answered at that time

demo_vars == <<file, dict, last_command, current_state, command, event, enabled,
               mpc, upstream, writes, acted, last_sent, answered, returned>>

NoSent == [op |-> "", state |-> ""]
NoReturn == [handler |-> "", answered |-> FALSE]

\* The demo is not running.
DemoIdle ==
    /\ file = ""
    /\ dict = ""
    /\ last_command = ""
    /\ current_state = ""
    /\ command = "None"
    /\ event = FALSE
    /\ enabled = FALSE
    /\ mpc = "off"
    /\ upstream = ""
    /\ writes = 0
    /\ acted = 0
    /\ last_sent = NoSent
    /\ answered = FALSE
    /\ returned = NoReturn

VARIABLES
    lock,         \* who holds the lock of the feature: "free", "notifier", "app"
    npc,          \* where the notification thread is in update
    apc,          \* where the application thread is in its call
    building,     \* the Sample the notification thread is constructing
    it,           \* the position of the dispatch in the list of listeners
    aop,          \* the call of the application thread
    observed      \* what the application thread last read as last_sample

conc_vars == <<lock, npc, apc, building, it, aop, observed>>

NoBuilding == [sample |-> None, complete |-> FALSE]
NoOp == [op |-> "", listener |-> ""]

\* No thread is running.
ConcIdle ==
    /\ lock = "free"
    /\ npc = "idle"
    /\ apc = "idle"
    /\ building = NoBuilding
    /\ it = 0
    /\ aop = NoOp
    /\ observed = None

\* The variables the codec run leaves alone, and their values in it.
beside_codec == <<sdk_vars, listener_vars, demo_vars, conc_vars>>
BesideCodecIdle == SdkIdle /\ ListenerIdle /\ DemoIdle /\ ConcIdle

\* The same for the read and parse calls, for the listener calls and for the
\* demo.
beside_sdk == <<listener_vars, demo_vars, conc_vars>>
BesideSdkIdle == ListenerIdle /\ DemoIdle /\ ConcIdle
beside_listener == <<sdk_vars, demo_vars, conc_vars>>
BesideListenerIdle == SdkIdle /\ DemoIdle /\ ConcIdle
beside_demo == <<sdk_vars, listener_vars, conc_vars>>
BesideDemoIdle == SdkIdle /\ ListenerIdle /\ ConcIdle
beside_conc == <<sdk_vars, demo_vars>>
BesideConcIdle == SdkIdle /\ DemoIdle

vars == <<codec_vars, beside_codec>>

NoCall ==
    [n |-> 0, feature |-> "", timestamp |-> 0, offset |-> 0, raised |-> "",
     extracted |-> None, conv |-> << >>,
     before |-> [f \in Features |-> None], notified_before |-> 0]

NoShown == [accessor |-> "", args |-> [a \in ArgNames |-> None],
            results |-> [a \in ArgNames |-> Return(NaN)]]

Init ==
    /\ data \in Buffers
    /\ layout \in Layouts
    /\ start \in 0..MaxOffset
    /\ cursor = start
    /\ idx = 1
    /\ pc = "decoding"
    /\ last_sample = [f \in Features |-> None]
    /\ listeners = [f \in Features |-> << >>]
    /\ notified = << >>
    /\ call = NoCall
    /\ decoded = << >>
    /\ shown = NoShown
    /\ BesideCodecIdle

(***************************************************************************)
(* blue_st_sdk.feature.Feature                                             *)
(***************************************************************************)
\* Feature._notify_update(sample): on_update(feature, sample) on every
\* registered listener.
\* A dispatch that leaves out the listener registered last.
Mutant_notify_update_skips_last(feature, sample) ==
    LET ls == listeners[feature]
    IN [i \in 1..(Len(ls) - 1) |->
           [listener |-> ls[i], feature |-> feature, sample |-> sample]]

notify_update(feature, sample) ==
    LET ls == listeners[feature]
    IN [i \in 1..Len(ls) |->
           [listener |-> ls[i], feature |-> feature, sample |-> sample]]

\* Feature.add_listener(listener)
\* The listeners are kept in a list; a listener already in it is not added
\* again.
registered(feature) == {listeners[feature][i] : i \in 1..Len(listeners[feature])}

\* The list after an add that appends whether or not the listener is in it.
Mutant_add_listener_appends(ls, listener) == Append(ls, listener)

\* The list of listeners after add_listener(listener).
Feature_add_listener(ls, listener) ==
    IF \E i \in 1..Len(ls) : ls[i] = listener THEN ls ELSE Append(ls, listener)

add_listener(feature, listener) ==
    /\ listeners' = [listeners EXCEPT ![feature] = Feature_add_listener(@, listener)]
    /\ UNCHANGED <<data, layout, start, cursor, idx, pc, last_sample,
                   notified, call, decoded, shown>>
    /\ UNCHANGED beside_codec

\* Feature.update(timestamp, data, offset) on the next feature of the payload,
\* called by the connection layer, which advances its offset by the bytes read
\* and stops at the first error.
update ==
    /\ pc = "decoding"
    /\ LET feature == layout[idx]
           timestamp == call.n + 1
           r == extract_data(feature, timestamp, data, cursor)
       IN /\ call' = [n |-> call.n + 1, feature |-> feature,
                      timestamp |-> timestamp, offset |-> cursor,
                      raised |-> r.raised, extracted |-> r.extracted,
                      conv |-> r.conv, before |-> last_sample,
                      notified_before |-> Len(notified)]
          /\ IF r.raised = ""
             THEN /\ last_sample' = [last_sample EXCEPT ![feature] = r.extracted.sample]
                  /\ notified' = notified \o notify_update(feature, r.extracted.sample)
                  /\ cursor' = cursor + r.extracted.bytes_read
                  /\ decoded' = Append(decoded, [feature |-> feature, offset |-> cursor,
                                                 sample |-> r.extracted.sample])
                  /\ idx' = idx + 1
                  /\ pc' = IF idx + 1 > Len(layout) THEN "done" ELSE "decoding"
             ELSE /\ pc' = "failed"
                  /\ UNCHANGED <<last_sample, notified, cursor, decoded, idx>>
    /\ UNCHANGED <<data, layout, start, listeners, shown>>
    /\ UNCHANGED beside_codec

(***************************************************************************)
(* Display code: one accessor applied to each candidate argument once the  *)
(* payload has been processed.                                             *)
(***************************************************************************)
ArgValue(a) ==
    CASE a = "accelerometer" -> last_sample[FeatureAccelerometer_FEATURE_NAME]
      [] a = "humidity" -> last_sample[FeatureHumidity_FEATURE_NAME]
      [] a = "none" -> None
      [] a = "nodata" -> [tag |-> "Sample", data |-> NoList,
                          description |-> << >>, timestamp |-> 0]
      [] a = "empty" -> [tag |-> "Sample", data |-> PyList(<< >>),
                         description |-> << >>, timestamp |-> 0]

read_channel(accessor) ==
    /\ pc \in {"done", "failed"}
    /\ shown' = [accessor |-> accessor,
                 args |-> [a \in ArgNames |-> ArgValue(a)],
                 results |-> [a \in ArgNames |-> CallAccessor(accessor, ArgValue(a))]]
    /\ UNCHANGED <<data, layout, start, cursor, idx, pc, last_sample, listeners,
                   notified, call, decoded>>
    /\ UNCHANGED beside_codec

Next ==
    \/ \E f \in Features, l \in Listeners : add_listener(f, l)
    \/ update
    \/ \E a \in Accessors : read_channel(a)

Spec == Init /\ [][Next]_vars

(***************************************************************************)
(* Synchronous reads and the advertising data parser interface.            *)
(***************************************************************************)
MaxReads == 3

\* What the device returns when the characteristic of a feature is read.
Payloads == {SubSeq(Tape, s, s + n - 1) : s \in {1, 9}, n \in {0, 1, 2, 5, 6}}

\* Feature._read_data(): refused when the feature cannot be read, otherwise
\* the bytes read from the device are extracted from offset 0 and the sample
\* becomes the latest one.  The outcome and the latest sample after it.
read_data(feature, readable, payload, timestamp) ==
    IF ~readable
    THEN [raised |-> "BlueSTInvalidOperationException",
          sample |-> last_sample[feature], updated |-> FALSE]
    ELSE LET r == extract_data(feature, timestamp, payload, 0)
         IN IF r.raised = ""
            THEN [raised |-> "", sample |-> r.extracted.sample, updated |-> TRUE]
            ELSE [raised |-> r.raised, sample |-> last_sample[feature],
                  updated |-> FALSE]

\* The except clause answers with the documented <nan> values instead of
\* raising.
Mutant_read_accelerometer_swallows(rd) ==
    IF rd.raised \in {"BlueSTInvalidOperationException",
                      "BlueSTInvalidDataException"}
    THEN Return(PyList(<<NaN, NaN, NaN>>))
    ELSE Return(PyList(<<get_accelerometer_x(rd.sample).value,
                         get_accelerometer_y(rd.sample).value,
                         get_accelerometer_z(rd.sample).value>>))

\* FeatureAccelerometer.read_accelerometer(), given the outcome rd of
\* self._read_data() and the sample self._get_sample() answers after it.
read_accelerometer(rd) ==
    IF rd.raised \in {"BlueSTInvalidOperationException",
                      "BlueSTInvalidDataException"}
    THEN Raise(rd.raised)
    ELSE IF rd.raised # ""
    THEN Raise(rd.raised)
    ELSE LET x == get_accelerometer_x(rd.sample)
             y == get_accelerometer_y(rd.sample)
             z == get_accelerometer_z(rd.sample)
         IN IF x.raised # "" THEN Raise(x.raised)
            ELSE IF y.raised # "" THEN Raise(y.raised)
            ELSE IF z.raised # "" THEN Raise(z.raised)
            ELSE Return(PyList(<<x.value, y.value, z.value>>))

\* FeatureHumidity.read_humidity(), given the same.
read_humidity(rd) ==
    IF rd.raised \in {"BlueSTInvalidOperationException",
                      "BlueSTInvalidDataException"}
    THEN Raise(rd.raised)
    ELSE IF rd.raised # ""
    THEN Raise(rd.raised)
    ELSE get_humidity(rd.sample)

\* An implementation body that answers with a result.
Mutant_parse_returns(advertising_data) == Return(PyList(advertising_data))

\* BLEAdvertisingDataParser.parse(advertising_data) of the interface itself.
BLEAdvertisingDataParser_parse(advertising_data) == Raise("NotImplementedError")

\* The codec run is not in progress.
CodecIdle ==
    /\ data = << >>
    /\ layout = << >>
    /\ start = 0
    /\ cursor = 0
    /\ idx = 1
    /\ pc = "idle"
    /\ call = NoCall
    /\ decoded = << >>
    /\ shown = NoShown

run_vars == <<data, layout, start, cursor, idx, pc, call, decoded, shown>>

ReadInit ==
    /\ CodecIdle
    /\ last_sample = [f \in Features |-> None]
    /\ listeners \in {[f \in Features |-> << >>], [f \in Features |-> <<"l1">>]}
    /\ notified = << >>
    /\ SdkIdle
    /\ BesideSdkIdle

\* One read call of the application on a feature.
Read(feature, readable, payload) ==
    /\ reading.n < MaxReads
    /\ LET timestamp == reading.n + 1
           rd == read_data(feature, readable, payload, timestamp)
           result == IF feature = FeatureAccelerometer_FEATURE_NAME
                     THEN read_accelerometer(rd)
                     ELSE read_humidity(rd)
       IN /\ reading' = [n |-> reading.n + 1, feature |-> feature,
                         readable |-> readable, payload |-> payload,
                         before |-> last_sample[feature], result |-> result]
          /\ last_sample' = [last_sample EXCEPT ![feature] = rd.sample]
          /\ notified' = IF rd.updated
                         THEN notified \o notify_update(feature, rd.sample)
                         ELSE notified
    /\ UNCHANGED <<run_vars, listeners, parsed, beside_sdk>>

read_accelerometer_call(readable, payload) ==
    Read(FeatureAccelerometer_FEATURE_NAME, readable, payload)

read_humidity_call(readable, payload) ==
    Read(FeatureHumidity_FEATURE_NAME, readable, payload)

parse_call(advertising_data) ==
    /\ parsed' = [called |-> TRUE, advertising_data |-> advertising_data,
                  result |-> BLEAdvertisingDataParser_parse(advertising_data)]
    /\ UNCHANGED <<codec_vars, reading, beside_sdk>>

ReadNext ==
    \/ \E readable \in BOOLEAN, payload \in Payloads :
           read_accelerometer_call(readable, payload)
    \/ \E readable \in BOOLEAN, payload \in Payloads :
           read_humidity_call(readable, payload)
    \/ \E advertising_data \in Payloads : parse_call(advertising_data)

ReadSpec == ReadInit /\ [][ReadNext]_vars

(***************************************************************************)
(* An application registering and removing listeners on the humidity       *)
(* feature while the connection layer delivers notifications to it.        *)
(***************************************************************************)
MaxAdds == 2
MaxDeliveries == 1

\* The list of listeners after remove_listener(listener).
Feature_remove_listener(ls, listener) ==
    IF \E i \in 1..Len(ls) : ls[i] = listener
    THEN LET first == CHOOSE i \in 1..Len(ls) :
                          ls[i] = listener /\ \A j \in 1..(i - 1) : ls[j] # listener
         IN SubSeq(ls, 1, first - 1) \o SubSeq(ls, first + 1, Len(ls))
    ELSE ls

\* The list of listeners after remove_all_listeners().
Feature_remove_all_listeners(ls) == << >>

\* A notification of one humidity value, and one cut short.
Notifications == {SubSeq(Tape, 7, 8), SubSeq(Tape, 7, 7)}

ListenerInit ==
    /\ CodecIdle
    /\ last_sample = [f \in Features |-> None]
    /\ listeners = [f \in Features |-> << >>]
    /\ notified = << >>
    /\ ListenerIdle
    /\ BesideListenerIdle

AddListener(listener) ==
    /\ adds[listener] < MaxAdds
    /\ listeners' = [listeners EXCEPT ![FeatureHumidity_FEATURE_NAME] =
                         Feature_add_listener(@, listener)]
    /\ adds' = [adds EXCEPT ![listener] = @ + 1]
    /\ UNCHANGED <<run_vars, last_sample, notified, dispatch, beside_listener>>

RemoveListener(listener) ==
    /\ listeners' = [listeners EXCEPT ![FeatureHumidity_FEATURE_NAME] =
                         Feature_remove_listener(@, listener)]
    /\ adds' = [adds EXCEPT ![listener] = 0]
    /\ UNCHANGED <<run_vars, last_sample, notified, dispatch, beside_listener>>

RemoveAllListeners ==
    /\ listeners' = [listeners EXCEPT ![FeatureHumidity_FEATURE_NAME] =
                         Feature_remove_all_listeners(@)]
    /\ adds' = [l \in ListenerPool |-> 0]
    /\ UNCHANGED <<run_vars, last_sample, notified, dispatch, beside_listener>>

\* Feature.update(timestamp, payload, 0) called by the connection layer for
\* one notification; dispatch records what it saw and did when it returned.
Deliver(payload) ==
    /\ dispatch.n < MaxDeliveries
    /\ LET feature == FeatureHumidity_FEATURE_NAME
           timestamp == dispatch.n + 1
           r == extract_data(feature, timestamp, payload, 0)
       IN /\ IF r.raised = ""
             THEN /\ last_sample' = [last_sample EXCEPT
                                         ![feature] = r.extracted.sample]
                  /\ notified' = notified \o
                                     notify_update(feature, r.extracted.sample)
             ELSE UNCHANGED <<last_sample, notified>>
          /\ dispatch' = [n |-> dispatch.n + 1, raised |-> r.raised,
                          registered_at |-> listeners[feature],
                          twice |-> {l \in ListenerPool : adds[l] >= 2},
                          notified_before |-> Len(notified),
                          stored |-> last_sample'[feature]]
    /\ UNCHANGED <<run_vars, listeners, adds, beside_listener>>

ListenerNext ==
    \/ \E l \in ListenerPool : AddListener(l)
    \/ \E l \in ListenerPool : RemoveListener(l)
    \/ RemoveAllListeners
    \/ \E payload \in Notifications : Deliver(payload)

ListenerSpec == ListenerInit /\ [][ListenerNext]_vars

(***************************************************************************)
(* The notification thread running update on the humidity feature while    *)
(* an application thread adds and removes listeners and reads last_sample, *)
(* each step of a thread being one step of the model.                      *)
(***************************************************************************)
\* The lock is taken whether or not somebody holds it.
Mutant_acquire_unguarded(thread) == lock' = thread

\* The lock of the feature is taken by a thread once it is free.
acquire(thread) == lock = "free" /\ lock' = thread

release == lock' = "free"

\* A Sample as another thread sees it: all of it once constructed, without
\* description and timestamp before.
AsSeen(b) ==
    IF b.complete
    THEN b.sample
    ELSE [b.sample EXCEPT !.description = << >>, !.timestamp = 0]

ConcInit ==
    /\ CodecIdle
    /\ last_sample = [f \in Features |-> None]
    /\ listeners = [f \in Features |-> << >>]
    /\ notified = << >>
    /\ ListenerIdle
    /\ ConcIdle
    /\ BesideConcIdle

\* update: the strategy decodes the values and starts constructing the Sample.
NotifierExtract ==
    /\ npc = "idle"
    /\ dispatch.n < MaxDeliveries
    /\ LET r == extract_data(FeatureHumidity_FEATURE_NAME, dispatch.n + 1,
                             SubSeq(Tape, 7, 8), 0)
       IN building' = [sample |-> r.extracted.sample, complete |-> FALSE]
    /\ npc' = "constructing"
    /\ UNCHANGED <<lock, apc, it, aop, observed>>
    /\ UNCHANGED <<codec_vars, listener_vars, beside_conc>>

\* The Sample is constructed.
NotifierConstructed ==
    /\ npc = "constructing"
    /\ building' = [building EXCEPT !.complete = TRUE]
    /\ npc' = "acquire"
    /\ UNCHANGED <<lock, apc, it, aop, observed>>
    /\ UNCHANGED <<codec_vars, listener_vars, beside_conc>>

NotifierAcquire ==
    /\ npc = "acquire"
    /\ acquire("notifier")
    /\ npc' = "store"
    /\ UNCHANGED <<apc, building, it, aop, observed>>
    /\ UNCHANGED <<codec_vars, listener_vars, beside_conc>>

\* last_sample is replaced and the dispatch starts.
NotifierStore ==
    /\ npc = "store"
    /\ last_sample' = [last_sample EXCEPT
                           ![FeatureHumidity_FEATURE_NAME] = AsSeen(building)]
    /\ dispatch' = [n |-> dispatch.n + 1, raised |-> "",
                    registered_at |-> listeners[FeatureHumidity_FEATURE_NAME],
                    twice |-> {}, notified_before |-> Len(notified),
                    stored |-> AsSeen(building)]
    /\ it' = 1
    /\ npc' = "dispatch"
    /\ UNCHANGED <<lock, apc, building, aop, observed>>
    /\ UNCHANGED <<run_vars, listeners, notified, adds, beside_conc>>

\* The next listener of the list is called, or the list is exhausted.
NotifierDispatch ==
    /\ npc = "dispatch"
    /\ LET ls == listeners[FeatureHumidity_FEATURE_NAME]
       IN IF it <= Len(ls)
          THEN /\ notified' = Append(notified,
                                     [listener |-> ls[it],
                                      feature |-> FeatureHumidity_FEATURE_NAME,
                                      sample |-> last_sample[FeatureHumidity_FEATURE_NAME]])
               /\ it' = it + 1
               /\ npc' = npc
          ELSE /\ npc' = "release"
               /\ UNCHANGED <<notified, it>>
    /\ UNCHANGED <<lock, apc, building, aop, observed>>
    /\ UNCHANGED <<run_vars, last_sample, listeners, listener_vars, beside_conc>>

\* update returns.
NotifierRelease ==
    /\ npc = "release"
    /\ release
    /\ npc' = "idle"
    /\ UNCHANGED <<apc, building, it, aop, observed>>
    /\ UNCHANGED <<codec_vars, listener_vars, beside_conc>>

\* The application thread calls add_listener, remove_listener or reads
\* last_sample.
AppCall(op, listener) ==
    /\ apc = "idle"
    /\ aop' = [op |-> op, listener |-> listener]
    /\ apc' = "acquire"
    /\ UNCHANGED <<lock, npc, building, it, observed>>
    /\ UNCHANGED <<codec_vars, listener_vars, beside_conc>>

AppAcquire ==
    /\ apc = "acquire"
    /\ acquire("app")
    /\ apc' = "critical"
    /\ UNCHANGED <<npc, building, it, aop, observed>>
    /\ UNCHANGED <<codec_vars, listener_vars, beside_conc>>

AppCritical ==
    /\ apc = "critical"
    /\ listeners' = [listeners EXCEPT ![FeatureHumidity_FEATURE_NAME] =
                         CASE aop.op = "add_listener" ->
                                  Feature_add_listener(@, aop.listener)
                           [] aop.op = "remove_listener" ->
                                  Feature_remove_listener(@, aop.listener)
                           [] OTHER -> @]
    /\ observed' = IF aop.op = "read"
                   THEN last_sample[FeatureHumidity_FEATURE_NAME]
                   ELSE observed
    /\ apc' = "release"
    /\ UNCHANGED <<lock, npc, building, it, aop>>
    /\ UNCHANGED <<run_vars, last_sample, notified, listener_vars, beside_conc>>

AppRelease ==
    /\ apc = "release"
    /\ release
    /\ apc' = "idle"
    /\ UNCHANGED <<npc, building, it, aop, observed>>
    /\ UNCHANGED <<codec_vars, listener_vars, beside_conc>>

ConcNext ==
    \/ NotifierExtract
    \/ NotifierConstructed
    \/ NotifierAcquire
    \/ NotifierStore
    \/ NotifierDispatch
    \/ NotifierRelease
    \/ \E l \in ListenerPool :
           AppCall("add_listener", l) \/ AppCall("remove_listener", l)
    \/ AppCall("read", "")
    \/ AppAcquire
    \/ AppCritical
    \/ AppRelease

ConcSpec == ConcInit /\ [][ConcNext]_vars

(***************************************************************************)
(* proteus-neai-ble-comms.py: the communication loop of main, the listener *)
(* of the anomaly detection feature and the wait for its event, with an    *)
(* external writer of the downstream command file and a device that sends  *)
(* notifications of any phase.                                             *)
(***************************************************************************)
MaxWrites == 3

\* What the downstream file may hold: a command, or text json.load rejects.
DownstreamCommands == {"start_ad", "stop_ad", "learn", "reset_knowledge"}
Unparsable == "{"
Contents == DownstreamCommands \cup {Unparsable}

\* feature_neai_anomaly_detection.Phase, as far as the listener tells them
\* apart, and what one device.wait_for_notifications call may deliver.
Phases == {"IDLE", "IDLE_TRAINED", "BUSY"}
Arrivals == Phases \cup {"nothing"}

IN_AD == "ANOMALY DETECTION"
MSG_NOT_IN_AD == "DEVICE NOT IN ANOMALY DETECTION MODE SO COMMAND stop_ad IGNORED."
MSG_IN_AD(cmd) ==
    IF cmd = "learn"
    THEN "DEVICE IN ANOMALY DETECTION MODE... COMMAND learn IGNORED."
    ELSE "DEVICE IN ANOMALY DETECTION MODE... COMMAND reset_knowledge IGNORED."

\* The condition of MyNEAIADFeatureListener.on_update.
Matches(cmd, phase) ==
    \/ cmd = "LEARN" /\ phase = "IDLE_TRAINED"
    \/ cmd = "DETECT" /\ (phase = "IDLE" \/ phase = "IDLE_TRAINED")
    \/ cmd = "STOP" /\ (phase = "IDLE" \/ phase = "IDLE_TRAINED")
    \/ cmd = "RESET" /\ phase = "IDLE"

\* MyNEAIADFeatureListener.on_update(feature, sample): the event after it.
on_update(cmd, phase, ev) == IF Matches(cmd, phase) THEN TRUE ELSE ev

\* device.wait_for_notifications(NOTIFICATIONS_TIMEOUT_s): a notification
\* that arrives while they are enabled is handed to the listener.
wait_for_notifications(arrival) ==
    IF enabled /\ arrival \in Phases
    THEN /\ event' = on_update(command, arrival, event)
         /\ answered' = (answered \/ Matches(command, arrival))
    ELSE UNCHANGED <<event, answered>>

DemoInit ==
    /\ CodecIdle
    /\ last_sample = [f \in Features |-> None]
    /\ listeners = [f \in Features |-> << >>]
    /\ notified = << >>
    /\ BesideDemoIdle
    /\ file \in Contents
    /\ dict = ""
    /\ last_command = ""
    /\ current_state = "IDLE"
    /\ command = "None"
    /\ event = FALSE
    /\ enabled = FALSE
    /\ mpc = "outer"
    /\ upstream = "1st COMMS SUCCESSFUL"
    /\ writes = 0
    /\ acted = 0
    /\ last_sent = NoSent
    /\ answered = FALSE
    /\ returned = NoReturn

\* The external writer replaces the content of the downstream file.
Write(content) ==
    /\ writes < MaxWrites
    /\ content # file
    /\ file' = content
    /\ writes' = writes + 1
    /\ acted' = 0
    /\ UNCHANGED <<dict, last_command, current_state, command, event, enabled,
                   mpc, upstream, last_sent, answered, returned>>
    /\ UNCHANGED <<codec_vars, beside_demo>>

\* A device operation is sent.
Send(op) ==
    /\ last_sent' = [op |-> op, state |-> current_state]
    /\ acted' = acted + 1

\* The outer loop lets every command through, read before or not.
Mutant_is_new_command_always(cmd, last) == cmd = cmd

\* Line 341: the command read is not the last one received.
is_new_command(cmd, last) == cmd # last

\* The stop_ad branch never refuses.
Mutant_stop_ad_rejected_never(state) == state # state

\* Line 377: stop_ad is refused outside anomaly detection.
stop_ad_rejected(state) == state # IN_AD

\* START ANOMALY DETECTION, up to the inner loop.
StartAd ==
    /\ command' = "DETECT"
    /\ Send("detect")
    /\ enabled' = TRUE
    /\ current_state' = IN_AD
    /\ mpc' = "inner"
    /\ UNCHANGED <<event, upstream, answered, returned>>

\* STOP ANOMALY DETECTION, up to the wait.
StopAd ==
    IF stop_ad_rejected(current_state)
    THEN /\ upstream' = MSG_NOT_IN_AD
         /\ UNCHANGED <<current_state, command, event, enabled, mpc, acted,
                        last_sent, answered, returned>>
    ELSE /\ command' = "STOP"
         /\ Send("stop")
         /\ answered' = FALSE
         /\ mpc' = "wait"
         /\ UNCHANGED <<current_state, event, enabled, upstream, returned>>

\* RESET KNOWLEDGE, up to the wait.
ResetKnowledge ==
    /\ command' = "RESET"
    /\ enabled' = TRUE
    /\ Send("reset")
    /\ answered' = FALSE
    /\ mpc' = "wait"
    /\ UNCHANGED <<current_state, event, upstream, returned>>

\* LEARNING, up to the wait.
Learn ==
    /\ command' = "LEARN"
    /\ Send("learn")
    /\ enabled' = TRUE
    /\ answered' = FALSE
    /\ mpc' = "wait"
    /\ UNCHANGED <<current_state, event, upstream, returned>>

\* One pass of the outer loop: the file is read, a command already seen is
\* skipped, a new one is remembered and its branch runs up to its loop.
OuterLoop ==
    /\ mpc = "outer"
    /\ IF file = Unparsable
       THEN UNCHANGED <<dict, last_command, current_state, command, event,
                        enabled, mpc, upstream, acted, last_sent, answered,
                        returned>>
       ELSE /\ dict' = file
            /\ IF ~is_new_command(file, last_command)
               THEN UNCHANGED <<last_command, current_state, command, event,
                                enabled, mpc, upstream, acted, last_sent,
                                answered, returned>>
               ELSE /\ last_command' = file
                    /\ CASE file = "start_ad" -> StartAd
                         [] file = "stop_ad" -> StopAd
                         [] file = "reset_knowledge" -> ResetKnowledge
                         [] file = "learn" -> Learn
    /\ UNCHANGED <<file, writes>>
    /\ UNCHANGED <<codec_vars, beside_demo>>

\* One pass of the inner loop of the start_ad branch.
InnerLoop(arrival) ==
    /\ mpc = "inner"
    /\ IF file = Unparsable
       THEN UNCHANGED <<dict, last_command, event, answered, mpc, upstream>>
       ELSE /\ dict' = file
            /\ IF file = "stop_ad"
               THEN /\ mpc' = "outer"
                    /\ UNCHANGED <<last_command, event, answered, upstream>>
               ELSE /\ wait_for_notifications(arrival)
                    /\ mpc' = mpc
                    /\ IF file \in {"learn", "reset_knowledge"} /\ file # last_command
                       THEN /\ upstream' = MSG_IN_AD(file)
                            /\ last_command' = file
                       ELSE UNCHANGED <<upstream, last_command>>
    /\ UNCHANGED <<file, writes, current_state, command, enabled, acted,
                   last_sent, returned>>
    /\ UNCHANGED <<codec_vars, beside_demo>>

\* wait_for_notifications_until_event_triggered: one pass of its loop.
WaitLoop(arrival) ==
    /\ mpc = "wait"
    /\ ~event
    /\ wait_for_notifications(arrival)
    /\ UNCHANGED <<file, dict, last_command, current_state, command, enabled,
                   mpc, upstream, writes, acted, last_sent, returned>>
    /\ UNCHANGED <<codec_vars, beside_demo>>

\* The wait returns with the event left set.
Mutant_WaitReturn_keeps_event ==
    /\ mpc = "wait"
    /\ event
    /\ command' = "None"
    /\ event' = event
    /\ enabled' = FALSE
    /\ current_state' = IF dict = "stop_ad" THEN "IDLE" ELSE current_state
    /\ returned' = [handler |-> dict, answered |-> answered]
    /\ mpc' = "outer"
    /\ UNCHANGED <<file, dict, last_command, upstream, writes, acted,
                   last_sent, answered>>
    /\ UNCHANGED <<codec_vars, beside_demo>>

\* The loop of the wait ends, the wait clears command and event and returns,
\* and the branch that called it finishes.
WaitReturn ==
    /\ mpc = "wait"
    /\ event
    /\ command' = "None"
    /\ event' = FALSE
    /\ enabled' = FALSE
    /\ current_state' = IF dict = "stop_ad" THEN "IDLE" ELSE current_state
    /\ returned' = [handler |-> dict, answered |-> answered]
    /\ mpc' = "outer"
    /\ UNCHANGED <<file, dict, last_command, upstream, writes, acted,
                   last_sent, answered>>
    /\ UNCHANGED <<codec_vars, beside_demo>>

Main ==
    \/ OuterLoop
    \/ \E arrival \in Arrivals : InnerLoop(arrival)
    \/ \E arrival \in Arrivals : WaitLoop(arrival)
    \/ WaitReturn

DemoNext ==
    \/ \E content \in Contents : Write(content)
    \/ Main

DemoSpec == DemoInit /\ [][DemoNext]_vars

\* The main thread keeps running.
FairDemoSpec == DemoInit /\ [][DemoNext]_vars /\ WF_vars(Main)

(***************************************************************************)
(* Properties.                                                             *)
(***************************************************************************)
Acc == FeatureAccelerometer_FEATURE_NAME
Hum == FeatureHumidity_FEATURE_NAME

\* An update call has been made; call holds its arguments and its outcome.
Called_ == call.n > 0
\* The bytes the latest call had at its offset.
Avail == Len(data) - call.offset
InvalidData == "BlueSTInvalidDataException"

\* The signed 16-bit integer whose little-endian encoding lies at bytes
\* o+1, o+2 of buf (offsets counted from 0).
Int16At(buf, o) ==
    LET lo == buf[o + 1]
        hi == buf[o + 2]
    IN IF hi >= 128 THEN lo + 256 * hi - 65536 ELSE lo + 256 * hi

\* The values of a sample.
Items(sample) == sample.data.items

\* C1: _extract_data of either feature, on a buffer with fewer bytes at the
\* offset than the feature's width, raises BlueSTInvalidDataException before
\* any LittleEndian conversion is called and returns nothing; with exactly the
\* feature's width available it does not raise that exception.
C1_ShortBufferIsRefusedBeforeAnyRead ==
    Called_ =>
        /\ Avail < (IF call.feature = Acc THEN 6 ELSE 2) =>
              /\ call.raised = InvalidData
              /\ call.conv = << >>
              /\ call.extracted = None
        /\ Avail = (IF call.feature = Acc THEN 6 ELSE 2) =>
              call.raised # InvalidData

\* A humidity decode at an offset where one byte is left, after an earlier
\* feature of the same payload was decoded.
C1_Witness ==
    /\ call.n = 2
    /\ call.feature = Hum
    /\ Avail = 1
    /\ call.raised = InvalidData
    /\ call.conv = << >>

\* C2: with at least 6 bytes at the offset the accelerometer decode succeeds
\* and its Sample holds, in the order X, Y, Z, the signed 16-bit little-endian
\* integers at offset, offset + 2 and offset + 4, as they are (no scaling, no
\* rounding, no clamping to [-2000, 2000]), with the timestamp passed in;
\* [0x10,0x00,0x20,0x00,0xF0,0xFF] at offset 0 gives 16, 32, -16 and 6 bytes
\* consumed.
C2_AccelerometerDecodesThreeInt16 ==
    (Called_ /\ call.feature = Acc /\ Avail >= 6) =>
        /\ call.raised = ""
        /\ Items(call.extracted.sample) =
              <<PyInt(Int16At(data, call.offset)),
                PyInt(Int16At(data, call.offset + 2)),
                PyInt(Int16At(data, call.offset + 4))>>
        /\ call.extracted.sample.timestamp = call.timestamp
        /\ (data = <<16, 0, 32, 0, 240, 255>> /\ call.offset = 0) =>
              /\ Items(call.extracted.sample) = <<PyInt(16), PyInt(32), PyInt(-16)>>
              /\ call.extracted.bytes_read = 6

\* The scenario of the specification: [0x10,0x00,0x20,0x00,0xF0,0xFF] decoded
\* at offset 0.
C2_Witness ==
    /\ Called_
    /\ call.feature = Acc
    /\ call.raised = ""
    /\ data = <<16, 0, 32, 0, 240, 255>>
    /\ call.offset = 0
    /\ Items(call.extracted.sample) = <<PyInt(16), PyInt(32), PyInt(-16)>>

\* C3: with at least 2 bytes at the offset the humidity decode succeeds and
\* its Sample holds exactly one value, the float equal to the signed 16-bit
\* little-endian integer at the offset divided by 10 (negative when the raw
\* integer is, not clamped to [0, 100]); [0xF4,0x01] at offset 0 gives 50.0 and
\* 2 bytes consumed.
C3_HumidityDecodesInt16OverTen ==
    (Called_ /\ call.feature = Hum /\ Avail >= 2) =>
        /\ call.raised = ""
        /\ Len(Items(call.extracted.sample)) = 1
        /\ LET v == Items(call.extracted.sample)[1]
               raw == Int16At(data, call.offset)
           IN /\ v.tag = "float"
              /\ v.den > 0
              /\ v.num * 10 = raw * v.den
              /\ raw < 0 => v.num < 0
              /\ (data = <<244, 1>> /\ call.offset = 0) =>
                    /\ NumEq(v, PyFloat(50, 1))
                    /\ call.extracted.bytes_read = 2

\* The scenario of the specification: [0xF4,0x01] decoded at offset 0.
C3_Witness ==
    /\ Called_
    /\ call.feature = Hum
    /\ call.raised = ""
    /\ data = <<244, 1>>
    /\ call.offset = 0
    /\ NumEq(Items(call.extracted.sample)[1], PyFloat(50, 1))

\* C4: a successful decode reports the fixed width of its feature as the bytes
\* consumed, 6 for the accelerometer and 2 for the humidity whatever the
\* buffer holds, and offset + bytes consumed never passes the end of the buffer.
C4_BytesConsumedIsFixedAndAvailable ==
    (Called_ /\ call.raised = "") =>
        /\ call.extracted.bytes_read = (IF call.feature = Acc THEN 6 ELSE 2)
        /\ call.offset + call.extracted.bytes_read <= Len(data)

\* An accelerometer decode at offset 1 of an 8-byte buffer: one byte is left
\* over after the 6 consumed.
C4_Witness ==
    /\ Called_
    /\ call.feature = Acc
    /\ call.raised = ""
    /\ call.offset = 1
    /\ Len(data) = 8
    /\ call.extracted.bytes_read = 6

\* The width of a feature's encoding.
Width(feature) == IF feature = Acc THEN 6 ELSE 2

RECURSIVE WidthSum(_)
WidthSum(features) ==
    IF features = << >> THEN 0
    ELSE Width(Head(features)) + WidthSum(Tail(features))

\* What a feature decodes from its own bytes alone: the bytes of its encoding
\* in a buffer of their own, read at offset 0.
Alone(feature, o) ==
    extract_data(feature, 0, SubSeq(data, o + 1, o + Width(feature)), 0)

\* C5: decoding the features of a payload in sequence, each at the offset the
\* bytes consumed so far lead to, gives every feature the values it decodes
\* from its own bytes alone; the offset never passes the end of the payload
\* and is the end of the payload after the last feature of an exact
\* concatenation; on a truncated payload the first feature whose bytes are
\* incomplete fails with BlueSTInvalidDataException and the features before
\* it keep their decoded values.
C5_SequentialDecodeByBytesConsumed ==
    /\ Len(decoded) = idx - 1
    /\ cursor = start + WidthSum(SubSeq(layout, 1, idx - 1))
    /\ decoded # << >> => cursor <= Len(data)
    /\ \A i \in 1..Len(decoded) :
          /\ decoded[i].feature = layout[i]
          /\ decoded[i].offset = start + WidthSum(SubSeq(layout, 1, i - 1))
          /\ Alone(layout[i], decoded[i].offset).raised = ""
          /\ Items(decoded[i].sample) =
                Items(Alone(layout[i], decoded[i].offset).extracted.sample)
    /\ pc = "done" =>
          /\ idx = Len(layout) + 1
          /\ start + WidthSum(layout) <= Len(data)
          /\ Len(data) = start + WidthSum(layout) => cursor = Len(data)
    /\ pc = "failed" =>
          /\ call.raised = InvalidData
          /\ start + WidthSum(SubSeq(layout, 1, idx)) > Len(data)
          /\ start + WidthSum(SubSeq(layout, 1, idx - 1)) <= Len(data) \/ idx = 1
    /\ (pc = "decoding" /\ Called_) => call.raised = ""

\* The accelerometer encoding followed by the humidity encoding, decoded from
\* offset 0 to the end of the payload.
C5_Witness ==
    /\ pc = "done"
    /\ start = 0
    /\ layout = <<Acc, Hum>>
    /\ data = <<16, 0, 32, 0, 240, 255, 244, 1>>
    /\ cursor = Len(data)
    /\ Items(decoded[1].sample) = <<PyInt(16), PyInt(32), PyInt(-16)>>
    /\ NumEq(Items(decoded[2].sample)[1], PyFloat(50, 1))

\* Every Sample the features have produced.
Samples ==
    {last_sample[f] : f \in {g \in Features : last_sample[g] # None}}
        \cup {decoded[i].sample : i \in 1..Len(decoded)}
        \cup {notified[i].sample : i \in 1..Len(notified)}

\* C6: a decode with enough bytes produces a Sample, and every Sample produced
\* has as many values as fields: three values paired with the fields X, Y, Z
\* for the accelerometer, one value paired with the field Humidity for the
\* humidity.
C6_SampleValuesParallelToFields ==
    /\ (Called_ /\ Avail >= Width(call.feature)) =>
          /\ call.raised = ""
          /\ call.extracted.sample \in Samples
    /\ \A sample \in Samples :
          /\ Len(Items(sample)) = Len(sample.description)
          /\ \/ /\ Len(Items(sample)) = 3
                /\ [i \in 1..3 |-> sample.description[i].name] = <<"X", "Y", "Z">>
             \/ /\ Len(Items(sample)) = 1
                /\ sample.description[1].name = "Humidity"
    /\ \A i \in 1..Len(decoded) :
          Len(Items(decoded[i].sample)) = (IF decoded[i].feature = Acc THEN 3 ELSE 1)

\* An accelerometer Sample and a humidity Sample decoded from one payload.
C6_Witness ==
    /\ last_sample[Acc] # None
    /\ last_sample[Hum] # None
    /\ Len(Items(last_sample[Acc])) = 3
    /\ Len(last_sample[Acc].description) = 3
    /\ Len(Items(last_sample[Hum])) = 1
    /\ Len(last_sample[Hum].description) = 1

\* C7: an update on too few bytes fails with BlueSTInvalidDataException, and a
\* failed update produces no Sample, leaves last_sample of every feature as it
\* was and notifies no listener; last_sample changes and listeners are
\* notified only by a successful update, with the Sample it decoded.
C7_FailedUpdateChangesNothing ==
    Called_ =>
        /\ Avail < Width(call.feature) => call.raised = InvalidData
        /\ call.raised # "" =>
              /\ call.extracted = None
              /\ last_sample = call.before
              /\ Len(notified) = call.notified_before
        /\ (last_sample # call.before \/ Len(notified) # call.notified_before) =>
              /\ call.raised = ""
              /\ last_sample = [call.before EXCEPT ![call.feature] = call.extracted.sample]
              /\ \A i \in (call.notified_before + 1)..Len(notified) :
                    /\ notified[i].feature = call.feature
                    /\ notified[i].sample = call.extracted.sample

\* A second humidity update that finds one byte left: the Sample of the first
\* update is still the last one, and the listener was notified once.
C7_Witness ==
    /\ call.n = 2
    /\ call.feature = Hum
    /\ call.raised = InvalidData
    /\ call.before[Hum] # None
    /\ last_sample[Hum] = call.before[Hum]
    /\ listeners[Hum] # << >>
    /\ Len(notified) = 1
    /\ call.notified_before = 1

\* The accessors that belong to a feature's samples.
AccessorsOf(arg) ==
    IF arg = "accelerometer"
    THEN {"get_accelerometer_x", "get_accelerometer_y", "get_accelerometer_z"}
    ELSE {"get_humidity"}

\* C8: on a Sample produced by a decode, each accessor of the Sample's feature
\* returns the float of the value stored at the accessor's index.
C8_AccessorReturnsStoredValue ==
    \A arg \in {"accelerometer", "humidity"} :
        (shown.accessor \in AccessorsOf(arg) /\ shown.args[arg] # None) =>
            shown.results[arg] =
                Return(float(Items(shown.args[arg])[AccessorIndex(shown.accessor) + 1]))

\* C9: an accessor called with None, with a Sample that has no value list or
\* with a Sample whose value list is empty returns NaN and raises nothing.
C9_AbsentSampleOrValuesGiveNaN ==
    shown.accessor # "" =>
        \A arg \in ArgNames :
            (\/ shown.args[arg] = None
             \/ ~TruthyList(shown.args[arg].data)) =>
                shown.results[arg] = Return(NaN)

\* get_humidity called with None, with a Sample without value list and with a
\* Sample with an empty value list.
C9_Witness ==
    /\ shown.accessor = "get_humidity"
    /\ shown.args["none"] = None
    /\ shown.args["nodata"].data.tag = "None"
    /\ shown.args["empty"].data = PyList(<< >>)
    /\ \A arg \in {"none", "nodata", "empty"} : shown.results[arg] = Return(NaN)

\* C10: an accessor called with a Sample whose value list is not empty but has
\* no element at the accessor's index returns NaN and raises nothing.
C10_MissingIndexGivesNaN ==
    \A arg \in ArgNames :
        (/\ shown.accessor # ""
         /\ shown.args[arg] # None
         /\ TruthyList(shown.args[arg].data)
         /\ AccessorIndex(shown.accessor) >= Len(Items(shown.args[arg]))) =>
            shown.results[arg] = Return(NaN)

C15_InterfaceParseRaises ==
    parsed.called =>
        /\ parsed.result.raised = "NotImplementedError"
        /\ parsed.result.value = None

C15_Witness ==
    /\ parsed.called
    /\ Len(parsed.advertising_data) = 6
    /\ parsed.result.raised = "NotImplementedError"

\* The on_update calls of the latest dispatch.
Dispatched == SubSeq(notified, dispatch.notified_before + 1, Len(notified))

\* How many of them went to a listener.
Invocations(l) == Cardinality({i \in 1..Len(Dispatched) : Dispatched[i].listener = l})

\* C12: the listeners of a feature have set semantics: a listener added
\* once or several times since it was last removed is registered exactly once,
\* one removed since is not registered at all (one remove_listener call, or
\* remove_all_listeners, unregisters it whatever the number of adds before),
\* and a listener added twice or more before a successful extract received
\* exactly one notification from it.
C12_ListenersHaveSetSemantics ==
    LET ls == listeners[Hum]
    IN /\ \A l \in ListenerPool :
              Cardinality({i \in 1..Len(ls) : ls[i] = l}) =
                  IF adds[l] >= 1 THEN 1 ELSE 0
       /\ (dispatch.n >= 1 /\ dispatch.raised = "") =>
              \A l \in dispatch.twice : Invocations(l) = 1

\* A listener added twice and then notified by a successful extract.
C12_Witness ==
    /\ dispatch.n >= 1
    /\ dispatch.raised = ""
    /\ "l1" \in dispatch.twice
    /\ Invocations("l1") = 1

\* C13: when a successful extract returns, every listener registered at
\* dispatch time has been invoked exactly once, with the feature and with the
\* sample stored as its latest sample, and nobody else has; with no listener
\* registered the extract of a complete payload succeeds and notifies nobody.
C13_EveryRegisteredListenerOnce ==
    dispatch.n >= 1 =>
        LET at == {dispatch.registered_at[i] : i \in 1..Len(dispatch.registered_at)}
        IN /\ dispatch.raised = "" =>
                  /\ \A l \in ListenerPool :
                         Invocations(l) = IF l \in at THEN 1 ELSE 0
                  /\ \A i \in 1..Len(Dispatched) :
                         /\ Dispatched[i].feature = Hum
                         /\ Dispatched[i].sample = dispatch.stored
                  /\ dispatch.stored # None
                  /\ dispatch.stored.timestamp = dispatch.n
                  /\ last_sample[Hum] = dispatch.stored
           /\ dispatch.raised # "" => Dispatched = << >>

\* Three listeners registered before one extract.
C13_Witness ==
    /\ dispatch.n >= 1
    /\ dispatch.raised = ""
    /\ Len(dispatch.registered_at) = 3
    /\ Len(Dispatched) = 3

\* A Sample none of whose parts is missing.
Constructed(sample) ==
    /\ sample # None
    /\ sample.description = get_fields_description(Hum)
    /\ Len(sample.data.items) = Len(sample.description)
    /\ sample.timestamp >= 1

C16_NoLearnOrResetDuringDetection ==
    last_sent.op \in {"learn", "reset"} => last_sent.state # IN_AD

\* C17: the wait of a handler returns only after a notification matching
\* the handler's command arrived after the command was sent.
C17_WaitReturnsOnlyOnFreshNotification ==
    returned.handler # "" => returned.answered

\* C18: the outer loop acts on a command only when it differs from
\* last_command and then remembers it: while the file keeps the same content
\* at most one device operation is sent because of it, and after a pass of
\* the outer loop that acted, last_command is the command read.
C18_SameCommandActedOnce ==
    /\ acted <= 1
    /\ (acted = 1 /\ mpc # "inner") => last_command = file

C18_Witness ==
    /\ acted = 1
    /\ mpc = "outer"
    /\ last_sent.op = "learn"
    /\ returned.handler = "learn"
    /\ file = "learn"

\* C19: a stop_ad command read while current_state is not "ANOMALY
\* DETECTION" is rejected: the upstream message says so, nothing is sent to the
\* device, no wait is started, and current_state, command and the event stay.
C19_StopAdOutsideDetectionRejected ==
    [][(/\ mpc = "outer"
        /\ file = "stop_ad"
        /\ file' = file
        /\ last_command # "stop_ad"
        /\ current_state # IN_AD)
       => (/\ upstream' = MSG_NOT_IN_AD
           /\ last_sent' = last_sent
           /\ acted' = acted
           /\ mpc' = "outer"
           /\ current_state' = current_state
           /\ command' = command
           /\ event' = event
           /\ last_command' = "stop_ad")]_demo_vars

C19_Witness ==
    /\ upstream = MSG_NOT_IN_AD
    /\ last_command = "stop_ad"
    /\ current_state = "IDLE"
    /\ mpc = "outer"
    /\ last_sent = NoSent

\* C20: the wait returns once the event is set; whenever it returns the
\* event is cleared and the global command is None, and with command None no
\* notification, whatever its phase, sets the event.
C20_WaitTerminatesAndClears ==
    /\ (mpc = "wait" /\ event) ~> (mpc = "outer" /\ ~event /\ command = "None")
    /\ [][(mpc = "wait" /\ mpc' # "wait") =>
              (~event' /\ command' = "None")]_demo_vars
    /\ [](command = "None" =>
              /\ ~event
              /\ \A phase \in Phases : ~on_update(command, phase, event))

C20_Witness ==
    /\ returned.handler = "reset_knowledge"
    /\ returned.answered
    /\ mpc = "outer"
    /\ ~event
    /\ command = "None"

====
